---- MODULE Spec2Model ----
(***************************************************************************)
(* san-cli Service (packages/san-cli/lib/Service.js): project-option       *)
(* resolution, plugin application, command registry and dispatch.          *)
(*                                                                         *)
(* JavaScript values are tagged records so that values of different        *)
(* JavaScript types stay comparable: t is the type tag, s the characters   *)
(* of a string, o the own properties of an object.                         *)
(***************************************************************************)
EXTENDS Integers, Sequences, FiniteSets, TLC

\* ------------------------------------------------------------------------
\* Configuration objects
\* ------------------------------------------------------------------------

\* keys of a project configuration that loadProjectOptions reads or writes,
\* and one ordinary key (assetsDir) that it only merges
Keys == {"assetsDir", "css", "browserslist", "publicPath", "outputDir",
         "chainWebpack", "configureWebpack"}

\* properties of the nested css object
SubKeys == {"postcss", "extract"}

SubUndef == [t |-> "undef", s |-> <<>>]

SubStr(s) == [t |-> "str", s |-> s]

NoSub == [k \in SubKeys |-> SubUndef]

Undef == [t |-> "undef", s |-> <<>>, o |-> NoSub]

Str(s) == [t |-> "str", s |-> s, o |-> NoSub]

Obj(o) == [t |-> "obj", s |-> <<>>, o |-> o]

Fn(name) == [t |-> "fn", s |-> name, o |-> NoSub]

List(name) == [t |-> "list", s |-> name, o |-> NoSub]

EmptyConfig == [k \in Keys |-> Undef]

\* JavaScript truthiness of a value: undefined and "" are falsy
Truthy(v) == v.t # "undef" /\ ~(v.t = "str" /\ v.s = <<>>)

\* one property under lodash.defaultsdeep: an undefined destination takes the
\* source, two objects are merged property by property, anything else stays
DefaultsDeepVal(objValue, srcValue) ==
  IF objValue.t = "undef" THEN srcValue
  ELSE IF objValue.t = "obj" /\ srcValue.t = "obj"
       THEN Obj([k \in SubKeys |->
                   IF objValue.o[k].t = "undef" THEN srcValue.o[k]
                   ELSE objValue.o[k]])
       ELSE objValue

defaultsDeep(object, source) ==
  [k \in Keys |-> DefaultsDeepVal(object[k], source[k])]

\* ------------------------------------------------------------------------
\* String helpers (strings are sequences of one-character strings)
\* ------------------------------------------------------------------------

\* /^https?:/
IsHttpUrl(val) ==
  \/ Len(val) >= 5 /\ SubSeq(val, 1, 5) = <<"h", "t", "t", "p", ":">>
  \/ Len(val) >= 6 /\ SubSeq(val, 1, 6) = <<"h", "t", "t", "p", "s", ":">>

\* a slip at line 513: the value is stored as line 511 left it
ensureSlashStrLeadOnly(val) ==
  IF ~IsHttpUrl(val) /\ Len(val) > 0 /\ val[1] \notin {"/", "."}
  THEN <<"/">> \o val
  ELSE val

\* ensureSlash(config, key): the new value of a string val
ensureSlashStr(val) ==
  LET lead == IF ~IsHttpUrl(val) /\ Len(val) > 0 /\ val[1] \notin {"/", "."}
              THEN <<"/">> \o val
              ELSE val
  IN IF Len(lead) > 0 /\ lead[Len(lead)] # "/" THEN lead \o <<"/">> ELSE lead

ensureSlash(config, key) ==
  IF config[key].t = "str"
  THEN [config EXCEPT ![key] = Str(ensureSlashStr(config[key].s))]
  ELSE config

\* config.publicPath.replace(/^\.\//, '')
stripDotSlash(config) ==
  IF config["publicPath"].t = "str"
     /\ Len(config["publicPath"].s) >= 2
     /\ SubSeq(config["publicPath"].s, 1, 2) = <<".", "/">>
  THEN [config EXCEPT !["publicPath"] =
          Str(SubSeq(config["publicPath"].s, 3, Len(config["publicPath"].s)))]
  ELSE config

\* removeSlash(config, key): val.replace(/\/$/g, '')
removeSlash(config, key) ==
  IF config[key].t = "str" /\ Len(config[key].s) > 0
     /\ config[key].s[Len(config[key].s)] = "/"
  THEN [config EXCEPT ![key] = Str(SubSeq(config[key].s, 1, Len(config[key].s) - 1))]
  ELSE config

\* ------------------------------------------------------------------------
\* loadProjectOptions
\* ------------------------------------------------------------------------

\* What a configuration file exports (module.exports), as require or
\* cosmiconfig hand it over: t = "none" nothing was found, "falsy" a falsy
\* export, "nonobj" a truthy value that is not an object (a string, a
\* function), "obj" an object with the properties cfg.  valid is the verdict
\* of validateOptions (lib/options.js) on the export.
NoExport == [t |-> "none", cfg |-> EmptyConfig, valid |-> TRUE]

\* validateOptions(result.config): TRUE when the schema accepts the export
validateOptions(export) == export.valid

\* the hard-coded browserslist of loadProjectOptions
BuiltInBrowsers == List(<<"b", "u", "i", "l", "t", "i", "n">>)

\* lines 326-336: attach the discovered postcss configuration
attachPostcss(config, postcss) ==
  IF config["css"].t = "obj" /\ Truthy(config["css"].o["postcss"])
  THEN config
  ELSE [config EXCEPT !["css"] =
          Obj([k \in SubKeys |->
                 IF config["css"].t = "obj" /\ config["css"].o[k].t # "undef"
                 THEN config["css"].o[k]
                 ELSE IF k = "postcss" THEN postcss ELSE SubUndef])]

\* lines 338-352: attach the discovered or the hard-coded browserslist
attachBrowserslist(config, browserslist) ==
  IF Truthy(config["browserslist"]) THEN config
  ELSE [config EXCEPT !["browserslist"] =
          IF Truthy(browserslist) THEN browserslist ELSE BuiltInBrowsers]

\* lines 324-360: everything loadProjectOptions does to the merged config
normalizeConfig(config, postcss, browserslist) ==
  removeSlash(
    stripDotSlash(
      ensureSlash(
        attachBrowserslist(attachPostcss(config, postcss), browserslist),
        "publicPath")),
    "outputDir")

\* lines 281-301: the export that loadProjectOptions works on.  configFile is
\* argv.configFile: "undef" not given, "exists" a path of an existing file,
\* "missing" a path of no file.
resolveExport(in) ==
  IF in.configFile = "exists" THEN in.explicitExport ELSE in.searchExport

\* a slip at lines 321-323: a missing file is an error
mergeExportRequiresFile(export, running) ==
  IF export.t \in {"nonobj", "obj"}
  THEN IF export.t = "obj" /\ ~validateOptions(export)
       THEN [threw |-> TRUE, merged |-> FALSE, config |-> running]
       ELSE [threw |-> FALSE, merged |-> TRUE,
             config |-> defaultsDeep(export.cfg, running)]
  ELSE [threw |-> TRUE, merged |-> FALSE, config |-> running]

\* a slip at line 320: defaultsDeep(config, result.config)
mergeExportUnderRunning(export, running) ==
  IF export.t \in {"nonobj", "obj"}
  THEN IF export.t = "obj" /\ ~validateOptions(export)
       THEN [threw |-> TRUE, merged |-> FALSE, config |-> running]
       ELSE [threw |-> FALSE, merged |-> TRUE,
             config |-> defaultsDeep(running, export.cfg)]
  ELSE [threw |-> FALSE, merged |-> FALSE, config |-> running]

\* lines 303-323: merge the export over the running default, or throw
mergeExport(export, running) ==
  IF export.t \in {"nonobj", "obj"}
  THEN IF export.t = "obj" /\ ~validateOptions(export)
       THEN [threw |-> TRUE, merged |-> FALSE, config |-> running]
       ELSE [threw |-> FALSE, merged |-> TRUE,
             config |-> defaultsDeep(export.cfg, running)]
  ELSE [threw |-> FALSE, merged |-> FALSE, config |-> running]

\* the messages loadProjectOptions logs
loadLog(in, export) ==
  (IF in.configFile = "missing" THEN {"warn: config file is not exists"} ELSE {})
  \cup (IF export.t = "nonobj" THEN {"error: must be an object"} ELSE {})
  \cup (IF export.t = "obj" /\ ~validateOptions(export)
        THEN {"error: format incorrect"} ELSE {})
  \cup (IF export.t \in {"none", "falsy"} THEN {"warn: cannot find"} ELSE {})

\* loadProjectOptions(configFile): its result (threw, or the config returned)
\* and the new value of this._initProjectOptions, which line 289 merges the
\* defaults into and which is the returned object itself when no file is used
loadProjectOptions(in) ==
  LET running == defaultsDeep(in.initOptions, in.defaults)
      export == resolveExport(in)
      m == mergeExport(export, running)
      final == normalizeConfig(m.config, in.postcss, in.browserslist)
  IN [threw |-> m.threw,
      merged |-> m.merged,
      export |-> export,
      config |-> IF m.threw THEN EmptyConfig ELSE final,
      initOptions |-> IF m.threw \/ m.merged THEN running ELSE final,
      log |-> loadLog(in, export)]

\* ------------------------------------------------------------------------
\* Command names
\* ------------------------------------------------------------------------

IsSpace(c) == c \in {" ", "\t"}

\* length of the run of whitespace that s starts with
RECURSIVE SpaceRun(_)
SpaceRun(s) ==
  IF s # <<>> /\ IsSpace(Head(s)) THEN 1 + SpaceRun(Tail(s)) ELSE 0

\* command.replace(/\s{2,}/g, ' ')
RECURSIVE collapseSpaces(_)
collapseSpaces(s) ==
  IF s = <<>> THEN <<>>
  ELSE IF SpaceRun(s) >= 2
       THEN <<" ">> \o collapseSpaces(SubSeq(s, SpaceRun(s) + 1, Len(s)))
       ELSE <<Head(s)>> \o collapseSpaces(Tail(s))

\* the lookahead [^open]*close matches at the start of s
ClosesFirst(s, open, close) ==
  \E k \in 1..Len(s) : s[k] = close /\ \A m \in 1..(k - 1) : s[m] # open

\* the whitespace run starting at s[i] is a separator of
\* /\s+(?![^[]*]|[^<]*>)/
IsSeparator(s, i) ==
  /\ IsSpace(s[i])
  /\ (i = 1 \/ ~IsSpace(s[i - 1]))
  /\ LET rest == SubSeq(s, i + SpaceRun(SubSeq(s, i, Len(s))), Len(s))
     IN ~ClosesFirst(rest, "[", "]") /\ ~ClosesFirst(rest, "<", ">")

\* .split(...)[0]
firstPiece(s) ==
  LET seps == {i \in 1..Len(s) : IsSeparator(s, i)}
  IN IF seps = {} THEN s
     ELSE SubSeq(s, 1, (CHOOSE i \in seps : \A j \in seps : i <= j) - 1)

RECURSIVE trimEnd(_)
trimEnd(s) ==
  IF s # <<>> /\ IsSpace(s[Len(s)]) THEN trimEnd(SubSeq(s, 1, Len(s) - 1)) ELSE s

\* String.prototype.trim
trim(s) == trimEnd(SubSeq(s, SpaceRun(s) + 1, Len(s)))

getCommandName(command) == trim(firstPiece(collapseSpaces(command)))

\* ------------------------------------------------------------------------
\* Plugins
\* ------------------------------------------------------------------------

BUILDIN_PLUGINS == <<"base", "css", "app", "optimization", "babel">>

\* the options given with a plugin reference: "undef" none, "null" a falsy
\* value, "empty" the object {}, anything else an object with properties
OptionsTruthy(options) == options \notin {"undef", "null"}

\* A plugin reference p.  kind "module" is a module name whose module exports
\* a plugin, kind "object" an object with id and apply, kind "bad" a
\* reference _resolvePlugin rejects (an unresolvable module, a module without
\* apply, an object without id).  pair is TRUE for [ref, options].
\* A descriptor of the plugin list is [id, pair, options]: pair is TRUE for
\* the array [plugin, options].  given is no part of the descriptor: it
\* remembers the options the reference came with ("undef" for none).
plainDescriptor(id) ==
  [id |-> id, pair |-> FALSE, options |-> "undef", given |-> "undef"]

\* _resolvePlugin(p): [threw, plugin]
resolvePlugin(p) ==
  LET pluginOptions == IF p.pair THEN p.options ELSE "undef"
  IN IF p.kind = "module"
     THEN [threw |-> FALSE,
           plugin |-> IF OptionsTruthy(pluginOptions)
                      THEN [id |-> p.id, pair |-> TRUE, options |-> pluginOptions,
                            given |-> pluginOptions]
                      ELSE [plainDescriptor(p.id) EXCEPT !.given = pluginOptions]]
     ELSE IF p.kind = "object"
          THEN [threw |-> FALSE,
                plugin |-> [plainDescriptor(p.id) EXCEPT !.given = pluginOptions]]
          ELSE [threw |-> TRUE, plugin |-> plainDescriptor("none")]

\* the built-in plugins, require(`../configs/${id}`) for each id in order
builtInPlugins ==
  [i \in 1..Len(BUILDIN_PLUGINS) |-> plainDescriptor(BUILDIN_PLUGINS[i])]

\* a slip at line 105: [...plugins, ...builtInPlugins]
resolvePluginsBuiltInLast(refs, useBuiltInPlugin) ==
  LET builtIn == IF useBuiltInPlugin THEN builtInPlugins ELSE <<>>
  IN IF \E i \in 1..Len(refs) : resolvePlugin(refs[i]).threw
     THEN [threw |-> TRUE, plugins |-> <<>>]
     ELSE [threw |-> FALSE,
           plugins |-> [i \in 1..Len(refs) |-> resolvePlugin(refs[i]).plugin] \o builtIn]

\* resolvePlugins(plugins, useBuiltInPlugin): [threw, plugins]
resolvePlugins(refs, useBuiltInPlugin) ==
  LET builtIn == IF useBuiltInPlugin THEN builtInPlugins ELSE <<>>
  IN IF \E i \in 1..Len(refs) : resolvePlugin(refs[i]).threw
     THEN [threw |-> TRUE, plugins |-> <<>>]
     ELSE [threw |-> FALSE,
           plugins |-> builtIn \o [i \in 1..Len(refs) |-> resolvePlugin(refs[i]).plugin]]

\* initPlugin(plugin): the third argument of apply
applyOptions(plugin) == IF plugin.pair THEN plugin.options ELSE "empty"

\* ------------------------------------------------------------------------
\* Environment files
\* ------------------------------------------------------------------------

EnvVars == {"NODE_ENV", "BABEL_ENV", "FOO"}

\* process.env holds strings only; "absent" stands for a variable not set
NoEnv == [k \in EnvVars |-> "absent"]

\* run, line 423
runMode(cmd, argv) ==
  IF argv.mode # "undef" THEN argv.mode
  ELSE IF cmd = <<"b">> /\ argv.watch THEN "development" ELSE "production"

\* process.env[k] === null: process.env never holds null
IsNull(v) == v = "null"

\* a slip at line 76: Object.assign(localEnv, defaultEnv)
loadEnvBaseOverLocal(mode, env, files) ==
  IF ~files.found THEN [threw |-> FALSE, env |-> env]
  ELSE IF ~files.readable THEN [threw |-> TRUE, env |-> env]
  ELSE [threw |-> FALSE,
        env |-> [k \in EnvVars |->
                   IF env[k] # "absent" THEN env[k]
                   ELSE IF files.base[k] # "absent" THEN files.base[k]
                   ELSE files.local[k]]]

\* loadEnv(mode) on the files [found, readable, base, local]: found says
\* whether findExisting found the mode's file, readable whether reading it
\* succeeds, base and local the variables the two files define (local is
\* NoEnv when there is no .local file).  [threw, env]
loadEnv(mode, env, files) ==
  IF ~files.found THEN [threw |-> FALSE, env |-> env]
  ELSE IF ~files.readable THEN [threw |-> TRUE, env |-> env]
  ELSE
    LET envObj == [k \in EnvVars |->
                     IF files.local[k] # "absent" THEN files.local[k]
                     ELSE files.base[k]]
        loaded == [k \in EnvVars |->
                     IF env[k] = "absent" THEN envObj[k] ELSE env[k]]
        defaultNodeEnv == IF mode = "production" THEN mode ELSE "development"
    IN [threw |-> FALSE,
        env |-> [k \in EnvVars |->
                   IF mode # "" /\ k \in {"NODE_ENV", "BABEL_ENV"} /\ IsNull(loaded[k])
                   THEN defaultNodeEnv
                   ELSE loaded[k]]]

\* ------------------------------------------------------------------------
\* Bounds and input sets
\* ------------------------------------------------------------------------

\* entries the client adds to the plugin list with addPlugin
MaxPlugins == 2

\* calls the client makes on the service
MaxCalls == 2

\* properties two layers of a configuration differ in (SpecConfig)
MaxVaried == 1

\* references in the list handed to the constructor (SpecPlugins)
MaxRefs == 2

\* argument groups of a command string (SpecNames)
MaxGroups == 2

\* rules in the module.rules of a webpack configuration
MaxRules == 2

\* rules in the oneOf of a rule
MaxNested == 1

\* flag-handlers registered before a dispatch
MaxHandlers == 3

\* flag schemas contributed before a command is looked at
MaxFlags == 2

BuildCommand == <<"b", " ", "<", "e", ">">>

\* The plugin modules of a project, by what their apply does with the facade:
\* "cmd" registers the command "b <e>", "stop" and "pass" contribute a flag
\* to "b" with a handler returning false and undefined, "more" adds the
\* plugin "pass", "peek" resolves the webpack configuration and adds a chain
\* and a raw callback that returns nothing, "merge" adds a chain and a raw
\* callback that returns an object, "bomb" throws.
PluginIds == {"cmd", "stop", "pass", "more", "peek", "merge", "bomb"}

\* the facade calls of a plugin's apply, in order; the built-in plugins and
\* the progress plugin add a chain callback
PluginScript(id) ==
  CASE id = "cmd" ->
         <<[op |-> "registerCommand", command |-> BuildCommand, flag |-> "f"]>>
    [] id = "stop" ->
         <<[op |-> "registerCommandFlag", command |-> <<"b">>, flag |-> "f",
            ret |-> "false"]>>
    [] id = "pass" ->
         <<[op |-> "registerCommandFlag", command |-> BuildCommand, flag |-> "g",
            ret |-> "undef"]>>
    [] id = "more" ->
         <<[op |-> "addPlugin", name |-> [kind |-> "module", id |-> "pass"],
            options |-> "o1"]>>
    [] id = "peek" ->
         <<[op |-> "resolveWebpackConfig"], [op |-> "chainWebpack"],
           [op |-> "configWebpack"]>>
    [] id = "merge" -> <<[op |-> "chainWebpack"], [op |-> "configWebpack"]>>
    [] id = "bomb" -> <<[op |-> "throw"]>>
    [] OTHER -> <<[op |-> "chainWebpack"]>>

\* the names handed to addPlugin: a module name, a resolved object, and a
\* name _resolvePlugin rejects
AddNames ==
  {[kind |-> "module", id |-> id] : id \in {"stop", "pass", "peek"}}
  \cup {[kind |-> "object", id |-> "stop"], [kind |-> "bad", id |-> "none"]}

\* the calls addPlugin(name, options) a client makes
AddCalls ==
  {[name |-> n, options |-> "undef"] : n \in AddNames}
  \cup {[name |-> [kind |-> "module", id |-> "cmd"], options |-> "o1"]}

\* the reference lists handed to the constructor
CtorRefs ==
  {<<>>,
   <<[kind |-> "module", id |-> "cmd", pair |-> FALSE, options |-> "undef"]>>,
   <<[kind |-> "module", id |-> "bomb", pair |-> FALSE, options |-> "undef"]>>,
   <<[kind |-> "module", id |-> "more", pair |-> TRUE, options |-> "o1"]>>,
   <<[kind |-> "object", id |-> "stop", pair |-> TRUE, options |-> "o1"]>>}

\* the command strings plugins register
Commands == {<<"b">>, BuildCommand}

\* the keys of the command registries, and a name nothing registers
Names == {getCommandName(c) : c \in Commands} \cup {<<"x">>}

FlagKeys == {"f", "g"}

NoFlags == [k \in FlagKeys |-> "none"]

NoCommand == [set |-> FALSE, command |-> <<>>, handler |-> "none", builder |-> NoFlags]

\* rawArgs of runCommand and run
RawArgs == {<<>>, <<<<"b">>>>}

\* the modes a client hands to init
Modes == {"test"}

\* a configuration with the properties of m set and the others undefined
ConfigOf(m) == [k \in Keys |-> IF k \in DOMAIN m THEN m[k] ELSE Undef]

SlashStr == <<"/">>

\* a stand-in for the defaults of lib/options.js
TypicalDefaults ==
  ConfigOf([assetsDir |-> Str(<<"d">>), publicPath |-> Str(SlashStr),
            outputDir |-> Str(<<"o">>)])

ObjExport(cfg, valid) == [t |-> "obj", cfg |-> cfg, valid |-> valid]

NonObjExport == [t |-> "nonobj", cfg |-> EmptyConfig, valid |-> FALSE]

FalsyExport == [t |-> "falsy", cfg |-> EmptyConfig, valid |-> FALSE]

\* a project file that sets chainWebpack and configureWebpack
ProjectFile ==
  ConfigOf([assetsDir |-> Str(<<"f">>), chainWebpack |-> Fn(<<"f">>),
            configureWebpack |-> Fn(<<"f">>)])

NoEnvFiles == [found |-> FALSE, readable |-> TRUE, base |-> NoEnv, local |-> NoEnv]

\* the files a project has on disk, as the service finds them
ServiceDisks ==
  {[explicitExport |-> e, searchExport |-> s, defaults |-> TypicalDefaults,
    postcss |-> SubUndef, browserslist |-> Undef, envFiles |-> f] :
      e \in {ObjExport(ProjectFile, TRUE)},
      s \in {NoExport, ObjExport(ProjectFile, TRUE), ObjExport(ProjectFile, FALSE)},
      f \in {[found |-> TRUE, readable |-> TRUE,
              base |-> [NoEnv EXCEPT !["FOO"] = "base"], local |-> NoEnv]}}

\* the argv objects given to run; logger says whether argv._logger is a
\* function
Argv(mode, configFile, noProgress, logger) ==
  [mode |-> mode, watch |-> FALSE, configFile |-> configFile,
   noProgress |-> noProgress, logger |-> logger]

Argvs ==
  {Argv("undef", "undef", FALSE, FALSE),
   Argv("undef", "undef", FALSE, TRUE),
   Argv("development", "missing", TRUE, TRUE)}

\* ------------------------------------------------------------------------
\* State
\* ------------------------------------------------------------------------

VARIABLES
  initialized,                \* this.initialized
  mode,                       \* this.mode ("undef" until init sets it)
  plugins,                    \* this.plugins
  projectOptions,             \* this.projectOptions: [def, config]
  initProjectOptions,         \* this._initProjectOptions
  webpackChainFns,            \* this.webpackChainFns
  webpackRawConfigFns,        \* this.webpackRawConfigFns
  registeredCommands,         \* this.registeredCommands
  registeredCommandFlags,     \* this.registeredCommandFlags
  registeredCommandHandlers,  \* this.registeredCommandHandlers
  cli,                        \* this._cli: the commands and parses it was given
  env,                        \* process.env
  disk,                       \* the project's files and the built-in defaults
  pc,                         \* where run and init stand
  runArgs,                    \* the arguments of the run in progress
  runLog,                     \* the phases of the latest run, in order
  applied,                    \* the apply calls made so far, in order
  dispatch,                   \* the latest invocation of a composite handler
  last,                       \* the latest call that ended, and how
  loaded,                     \* the latest result of loadProjectOptions
  calls,                      \* calls the client has made
  added,                      \* addPlugin calls the client has made
  ctor,                       \* the plugins and useBuiltInPlugin the constructor got
  resolved,                   \* the latest resolveWebpackConfig call that returned
  initState                   \* how far the first init got: "none", "running",
                              \* "returned", "aborted" (an apply threw),
                              \* "failed" (it threw after the loop)

serviceVars ==
  <<initialized, mode, plugins, projectOptions, initProjectOptions,
    webpackChainFns, webpackRawConfigFns, registeredCommands,
    registeredCommandFlags, registeredCommandHandlers>>

registryVars ==
  <<registeredCommands, registeredCommandFlags, registeredCommandHandlers>>

vars ==
  <<initialized, mode, plugins, projectOptions, initProjectOptions,
    webpackChainFns, webpackRawConfigFns, registeredCommands,
    registeredCommandFlags, registeredCommandHandlers, cli, env, disk, pc,
    runArgs, runLog, applied, dispatch, last, loaded, calls, added, initState,
    ctor, resolved>>

Idle == [run |-> "idle", init |-> "idle", by |-> "none", idx |-> 0, len |-> 0, api |-> 0]

NoArgs == [def |-> FALSE, a |-> <<>>]

Args(a) == [def |-> TRUE, a |-> a]

NoRun == [cmd |-> <<>>, argv |-> [mode |-> "undef", watch |-> FALSE,
          configFile |-> "undef", noProgress |-> FALSE, logger |-> FALSE],
          raw |-> NoArgs, mode |-> "undef"]

NoDispatch ==
  [n |-> 0, cmd |-> <<>>, handlers |-> <<>>, ran |-> <<>>, primary |-> <<>>,
   order |-> <<>>]

NoLoadInput == [configFile |-> "undef", explicitExport |-> NoExport,
                searchExport |-> NoExport, initOptions |-> EmptyConfig,
                defaults |-> EmptyConfig, postcss |-> SubUndef, browserslist |-> Undef]

NoLoad == [n |-> 0, in |-> NoLoadInput, threw |-> FALSE, merged |-> FALSE,
           export |-> NoExport, config |-> EmptyConfig, log |-> {}]

NoResolved ==
  [n |-> 0, chain |-> <<>>, raw |-> <<>>, replaced |-> FALSE, from |-> <<>>,
   merged |-> <<>>, rules |-> <<>>]

\* the record of a call that ended
Ended(op, threw) ==
  [op |-> op, threw |-> threw, why |-> "", noop |-> FALSE, logged |-> FALSE,
   cmd |-> <<>>, rawIn |-> NoArgs, rawOut |-> NoArgs]

\* the record of a call that threw, and what threw
Threw(op, why) == [Ended(op, TRUE) EXCEPT !.why = why]

NoCall == Ended("none", FALSE)

\* a service built by new Service(cwd, {plugins, useBuiltInPlugin,
\* projectOptions}) in a process with the environment e, that nothing was
\* called on but registerCommand and registerCommandFlag, which left the
\* three Maps commands, flags and handlers
Registered(refs, useBuiltInPlugin, options, d, e, commands, flags, handlers) ==
  /\ initialized = FALSE
  /\ mode = "undef"
  /\ plugins = resolvePlugins(refs, useBuiltInPlugin).plugins
  /\ projectOptions = [def |-> FALSE, config |-> EmptyConfig]
  /\ initProjectOptions = options
  /\ webpackChainFns = <<>>
  /\ webpackRawConfigFns = <<>>
  /\ registeredCommands = commands
  /\ registeredCommandFlags = flags
  /\ registeredCommandHandlers = handlers
  /\ cli = [commands |-> <<>>, parsed |-> <<>>]
  /\ env = e
  /\ disk = d
  /\ pc = Idle
  /\ runArgs = NoRun
  /\ runLog = <<>>
  /\ applied = <<>>
  /\ dispatch = NoDispatch
  /\ last = NoCall
  /\ loaded = NoLoad
  /\ calls = 0
  /\ added = 0
  /\ initState = "none"
  /\ ctor = [plugins |-> refs, useBuiltInPlugin |-> useBuiltInPlugin]
  /\ resolved = NoResolved

\* the state new Service(cwd, {plugins, useBuiltInPlugin, projectOptions})
\* leaves, lines 28-45, in a process with the environment e; names are the
\* keys the three Maps are followed for (a Map has no entry: set, has are
\* FALSE and the handler list is empty)
ConstructedWith(refs, useBuiltInPlugin, options, d, e, names) ==
  Registered(refs, useBuiltInPlugin, options, d, e,
             [n \in names |-> NoCommand],
             [n \in names |-> [has |-> FALSE, flags |-> NoFlags]],
             [n \in names |-> <<>>])

ConstructedIn(refs, useBuiltInPlugin, options, d, e) ==
  ConstructedWith(refs, useBuiltInPlugin, options, d, e, Names)

\* the same in a process whose environment sets no variable
Constructed(refs, useBuiltInPlugin, options, d) ==
  ConstructedIn(refs, useBuiltInPlugin, options, d, NoEnv)

\* the explicit options the constructor is given
CtorOptions == {ConfigOf([assetsDir |-> Str(<<"e">>)])}

Init ==
  \E refs \in CtorRefs, useBuiltInPlugin \in BOOLEAN, options \in CtorOptions,
     d \in ServiceDisks :
    /\ ~resolvePlugins(refs, useBuiltInPlugin).threw
    /\ Constructed(refs, useBuiltInPlugin, options, d)

ClientMayCall == pc = Idle /\ calls < MaxCalls

\* ------------------------------------------------------------------------
\* addPlugin, init, initPlugin and the facade
\* ------------------------------------------------------------------------

\* addPlugin(name, options = {}) resolves the pair [name, options]
addPluginRef(name, options) ==
  [kind |-> name.kind, id |-> name.id, pair |-> TRUE,
   options |-> IF options = "undef" THEN "empty" ELSE options]

\* a slip at line 445: unshift instead of push
addPluginInFront(list, name, options) ==
  IF resolvePlugin(addPluginRef(name, options)).threw THEN list
  ELSE <<resolvePlugin(addPluginRef(name, options)).plugin>> \o list

\* addPlugin: the new plugin list
addPlugin(list, name, options) ==
  IF resolvePlugin(addPluginRef(name, options)).threw THEN list
  ELSE Append(list, resolvePlugin(addPluginRef(name, options)).plugin)

AddPlugin(name, options) ==
  /\ ClientMayCall
  /\ added < MaxPlugins
  /\ added' = added + 1
  /\ plugins' = addPlugin(plugins, name, options)
  /\ last' = Ended("addPlugin", resolvePlugin(addPluginRef(name, options)).threw)
  /\ calls' = calls + 1
  /\ UNCHANGED <<initialized, mode, projectOptions, initProjectOptions,
                 webpackChainFns, webpackRawConfigFns, registryVars, cli, env,
                 disk, pc, runArgs, runLog, applied, dispatch, loaded, initState,
                 ctor, resolved>>

\* a slip at line 155: the guard is missing
initStartsAlways(isInitialized) == TRUE

\* init(mode), lines 155-162: whether the call goes on to apply the plugins
initStarts(isInitialized) == ~isInitialized

\* a slip at line 163: the loop starts at the second plugin
InitLoopFromSecond(by, list) ==
  [run |-> IF by = "run" THEN "init" ELSE "idle", init |-> "loop", by |-> by,
   idx |-> 2, len |-> Len(list), api |-> 0]

\* the position of an init that starts applying the plugins: forEach visits
\* the entries the list has when the loop begins
InitLoop(by, list) ==
  [run |-> IF by = "run" THEN "init" ELSE "idle", init |-> "loop", by |-> by,
   idx |-> 1, len |-> Len(list), api |-> 0]

InitCall(m) ==
  /\ ClientMayCall
  /\ calls' = calls + 1
  /\ IF initStarts(initialized)
     THEN /\ initialized' = TRUE
          /\ mode' = m
          /\ pc' = InitLoop("client", plugins)
          /\ initState' = "running"
          /\ UNCHANGED last
     ELSE /\ last' = [Ended("init", FALSE) EXCEPT !.noop = TRUE]
          /\ UNCHANGED <<initialized, mode, pc, initState>>
  /\ UNCHANGED <<plugins, projectOptions, initProjectOptions, webpackChainFns,
                 webpackRawConfigFns, registryVars, cli, env, disk, runArgs,
                 runLog, applied, dispatch, loaded, added, ctor, resolved>>

\* the call apply(api, this.projectOptions, options) of initPlugin
applyCall(plugin) ==
  [id |-> plugin.id, options |-> applyOptions(plugin), given |-> plugin.given,
   projectOptions |-> projectOptions.def, by |-> pc.by, idx |-> pc.idx]

\* an entry of runLog: the phase, and for "assign" whether init goes on to
\* apply plugins (starts) and how many the list holds then (n), for "apply"
\* the position of the plugin (n)
Phase(ph) == [ph |-> ph, n |-> 0, starts |-> FALSE]

LogIfRun(entry) == IF pc.by = "run" THEN Append(runLog, entry) ELSE runLog

\* initPlugin calls the apply of the next plugin of the loop
ApplyBegin ==
  /\ pc.init = "loop"
  /\ pc.idx <= pc.len
  /\ applied' = Append(applied, applyCall(plugins[pc.idx]))
  /\ pc' = [pc EXCEPT !.init = "apply", !.api = 1]
  /\ runLog' = LogIfRun([Phase("apply") EXCEPT !.n = pc.idx])
  /\ UNCHANGED <<initialized, mode, plugins, projectOptions, initProjectOptions,
                 webpackChainFns, webpackRawConfigFns, registryVars, cli, env,
                 disk, runArgs, dispatch, last, loaded, calls, initState, added,
                 ctor, resolved>>

\* the plugin whose apply is running, and what it does
Applying == plugins[pc.idx]

Script == PluginScript(Applying.id)

\* the running apply is about to make the facade call op
InApply(op) ==
  /\ pc.init = "apply"
  /\ pc.api <= Len(Script)
  /\ Script[pc.api].op = op

ApiDone == [pc EXCEPT !.api = pc.api + 1]

\* registerCommand(name, yargsModule), lines 231-269
registerCommand(commands, command, handler, builder) ==
  [commands EXCEPT ![getCommandName(command)] =
     [set |-> TRUE, command |-> command, handler |-> handler, builder |-> builder]]

ApiRegisterCommand ==
  /\ InApply("registerCommand")
  /\ registeredCommands' =
       registerCommand(registeredCommands, Script[pc.api].command, Applying.id,
                       [NoFlags EXCEPT ![Script[pc.api].flag] = "command"])
  /\ pc' = ApiDone
  /\ UNCHANGED <<initialized, mode, plugins, projectOptions, initProjectOptions,
                 webpackChainFns, webpackRawConfigFns, registeredCommandFlags,
                 registeredCommandHandlers, cli, env, disk, runArgs, runLog,
                 applied, dispatch, last, loaded, calls, initState, added,
                 ctor, resolved>>

\* registerCommandFlag, lines 220-224: the flag map
registerFlag(flagMap, cmdName, flag, owner) ==
  [flagMap EXCEPT ![getCommandName(cmdName)] =
     [has |-> TRUE,
      flags |-> [k \in FlagKeys |-> IF k = flag THEN owner ELSE @.flags[k]]]]

\* registerCommandFlag, lines 225-228: the handler map
registerHandler(handlerMap, cmdName, handler) ==
  [handlerMap EXCEPT ![getCommandName(cmdName)] = Append(@, handler)]

ApiRegisterCommandFlag ==
  /\ InApply("registerCommandFlag")
  /\ registeredCommandFlags' =
       registerFlag(registeredCommandFlags, Script[pc.api].command,
                    Script[pc.api].flag, Applying.id)
  /\ registeredCommandHandlers' =
       registerHandler(registeredCommandHandlers, Script[pc.api].command,
                       [owner |-> Applying.id, ret |-> Script[pc.api].ret])
  /\ pc' = ApiDone
  /\ UNCHANGED <<initialized, mode, plugins, projectOptions, initProjectOptions,
                 webpackChainFns, webpackRawConfigFns, registeredCommands, cli,
                 env, disk, runArgs, runLog, applied, dispatch, last, loaded,
                 calls, initState, added, ctor, resolved>>

\* addPlugin through the facade
ApiAddPlugin ==
  /\ InApply("addPlugin")
  /\ plugins' = addPlugin(plugins, Script[pc.api].name, Script[pc.api].options)
  /\ pc' = ApiDone
  /\ UNCHANGED <<initialized, mode, projectOptions, initProjectOptions,
                 webpackChainFns, webpackRawConfigFns, registryVars, cli, env,
                 disk, runArgs, runLog, applied, dispatch, last, loaded, calls,
                 initState, added, ctor, resolved>>

\* a slip at line 457: the guard is missing
resolveThrowsNever(isInitialized) == FALSE

\* resolveWebpackConfig, lines 457-459: whether the guard throws
resolveThrows(isInitialized) == ~isInitialized

\* api.chainWebpack(fn) of lib/PluginAPI.js
ApiChainWebpack ==
  /\ InApply("chainWebpack")
  /\ webpackChainFns' = Append(webpackChainFns, Applying.id)
  /\ pc' = ApiDone
  /\ UNCHANGED <<initialized, mode, plugins, projectOptions, initProjectOptions,
                 webpackRawConfigFns, registryVars, cli, env, disk, runArgs,
                 runLog, applied, dispatch, last, loaded, calls, initState, added,
                 ctor, resolved>>

\* api.configWebpack(fn) of lib/PluginAPI.js
ApiConfigWebpack ==
  /\ InApply("configWebpack")
  /\ webpackRawConfigFns' = Append(webpackRawConfigFns, Applying.id)
  /\ pc' = ApiDone
  /\ UNCHANGED <<initialized, mode, plugins, projectOptions, initProjectOptions,
                 webpackChainFns, registryVars, cli, env, disk, runArgs,
                 runLog, applied, dispatch, last, loaded, calls, initState, added,
                 ctor, resolved>>

\* apply returns: forEach goes on to the next plugin
ApplyReturn ==
  /\ pc.init = "apply"
  /\ pc.api > Len(Script)
  /\ pc' = [pc EXCEPT !.init = "loop", !.idx = pc.idx + 1, !.api = 0]
  /\ UNCHANGED <<initialized, mode, plugins, projectOptions, initProjectOptions,
                 webpackChainFns, webpackRawConfigFns, registryVars, cli, env,
                 disk, runArgs, runLog, applied, dispatch, last, loaded, calls,
                 initState, added, ctor, resolved>>

\* apply throws: the exception leaves init, and run when run called it
ApplyThrow ==
  /\ InApply("throw")
  /\ pc' = Idle
  /\ last' = Threw(IF pc.by = "run" THEN "run" ELSE "init", "apply")
  /\ initState' = "aborted"
  /\ UNCHANGED <<initialized, mode, plugins, projectOptions, initProjectOptions,
                 webpackChainFns, webpackRawConfigFns, registryVars, cli, env,
                 disk, runArgs, runLog, applied, dispatch, loaded, calls, added,
                 ctor, resolved>>

\* lines 167-172: the callbacks of the project configuration
pushIfSet(fns, value) == IF Truthy(value) THEN Append(fns, "projectOptions") ELSE fns

\* init after the loop, lines 166-173; reading this.projectOptions throws
\* when run has not assigned it
InitEnd ==
  /\ pc.init = "loop"
  /\ pc.idx > pc.len
  /\ IF projectOptions.def
     THEN /\ webpackChainFns' =
               pushIfSet(webpackChainFns, projectOptions.config["chainWebpack"])
          /\ webpackRawConfigFns' =
               pushIfSet(webpackRawConfigFns, projectOptions.config["configureWebpack"])
          /\ pc' = IF pc.by = "run" THEN [Idle EXCEPT !.run = "dispatch"] ELSE Idle
          /\ last' = IF pc.by = "run" THEN last ELSE Ended("init", FALSE)
          /\ runLog' = LogIfRun(Phase("inited"))
          /\ initState' = "returned"
     ELSE /\ pc' = Idle
          /\ last' = Threw(IF pc.by = "run" THEN "run" ELSE "init", "projectOptions")
          /\ initState' = "failed"
          /\ UNCHANGED <<webpackChainFns, webpackRawConfigFns, runLog>>
  /\ UNCHANGED <<initialized, mode, plugins, projectOptions, initProjectOptions,
                 registryVars, cli, env, disk, runArgs, applied, dispatch,
                 loaded, calls, added, ctor, resolved>>

\* ------------------------------------------------------------------------
\* runCommand
\* ------------------------------------------------------------------------

\* a slip at line 392: the loop is never left
stopsDispatchNever(doit) == FALSE

\* line 392: the value a flag-handler returned stops the dispatch
stopsDispatch(doit) == doit = "false"

\* a slip at line 404: doit && oHandler(argv)
primaryRunsIfTruthy(doit) == doit \notin {"false", "undef"}

\* line 404: doit !== false && oHandler(argv)
primaryRuns(doit) == doit # "false"

\* lines 385-398: the loop over the flag-handlers from index i on; st holds
\* the handlers called so far and the latest value of doit
RECURSIVE runHandlers(_, _, _)
runHandlers(handlers, i, st) ==
  IF i > Len(handlers) THEN st
  ELSE LET called == [ran |-> Append(st.ran, handlers[i]), doit |-> handlers[i].ret]
       IN IF stopsDispatch(called.doit) THEN called
          ELSE runHandlers(handlers, i + 1, called)

\* lines 381-405: one invocation of the composite handler; primary lists the
\* calls of the command's own handler, order says whose turn each call of
\* the invocation was
compositeHandler(handlers, oHandler) ==
  LET st == runHandlers(handlers, 1, [ran |-> <<>>, doit |-> "true"])
  IN [ran |-> st.ran,
      primary |-> IF primaryRuns(st.doit) THEN <<oHandler>> ELSE <<>>,
      order |-> [i \in 1..Len(st.ran) |-> "flag"]
                \o (IF primaryRuns(st.doit) THEN <<"primary">> ELSE <<>>)]

\* line 379: Object.assign(flags, oFlags)
assignFlags(flags, oFlags) ==
  [k \in FlagKeys |-> IF oFlags[k] # "none" THEN oFlags[k] ELSE flags[k]]

\* lines 409-411
unshiftCmd(cmd, rawArgs) ==
  IF rawArgs # <<>> /\ rawArgs[1] = cmd THEN rawArgs ELSE <<cmd>> \o rawArgs

\* a slip at line 370: the command is not looked up
commandExistsAlways(cmd) == TRUE

\* line 370: runCommand goes on to register and parse
commandExists(cmd) == registeredCommands[cmd].set

\* how runCommand(cmd, rawArgs) ends
runCommandResult(cmd, raw) ==
  IF ~commandExists(cmd)
  THEN [Ended("runCommand", FALSE) EXCEPT
          !.logged = TRUE, !.cmd = cmd, !.rawIn = raw, !.rawOut = raw]
  ELSE IF ~raw.def
       THEN [Threw("runCommand", "rawArgs") EXCEPT
               !.cmd = cmd, !.rawIn = raw, !.rawOut = raw]
       ELSE [Ended("runCommand", FALSE) EXCEPT
               !.cmd = cmd, !.rawIn = raw, !.rawOut = Args(unshiftCmd(cmd, raw.a))]

\* what runCommand(cmd, rawArgs) does to the flag map, the parser and the
\* handlers; invoke says whether the parser invokes the command's handler
RunCommandEffect(cmd, raw, invoke) ==
  LET c == registeredCommands[cmd]
      builder == assignFlags(registeredCommandFlags[cmd].flags, c.builder)
  IN IF ~commandExists(cmd)
     THEN UNCHANGED <<registeredCommandFlags, cli, dispatch>>
     ELSE /\ registeredCommandFlags' =
               IF registeredCommandFlags[cmd].has
               THEN [registeredCommandFlags EXCEPT ![cmd].flags = builder]
               ELSE registeredCommandFlags
          /\ cli' = [commands |-> Append(cli.commands,
                                         [command |-> c.command, builder |-> builder]),
                     parsed |-> IF raw.def
                                THEN Append(cli.parsed, unshiftCmd(cmd, raw.a))
                                ELSE cli.parsed]
          /\ dispatch' =
               IF raw.def /\ invoke
               THEN [n |-> 1, cmd |-> cmd,
                     handlers |-> registeredCommandHandlers[cmd],
                     ran |-> compositeHandler(registeredCommandHandlers[cmd], c.handler).ran,
                     primary |-> compositeHandler(registeredCommandHandlers[cmd],
                                                  c.handler).primary,
                     order |-> compositeHandler(registeredCommandHandlers[cmd],
                                                c.handler).order]
               ELSE NoDispatch

RunCommand(cmd, raw, invoke) ==
  /\ ClientMayCall
  /\ calls' = calls + 1
  /\ RunCommandEffect(cmd, raw, invoke)
  /\ last' = runCommandResult(cmd, raw)
  /\ UNCHANGED <<initialized, mode, plugins, projectOptions, initProjectOptions,
                 webpackChainFns, webpackRawConfigFns, registeredCommands,
                 registeredCommandHandlers, env, disk, pc, runArgs, runLog,
                 applied, loaded, initState, added, ctor, resolved>>

\* ------------------------------------------------------------------------
\* resolveWebpackConfig
\* ------------------------------------------------------------------------

\* A rule of module.rules: names is its __ruleNames ("undef" when it has
\* none), oneOf the rules nested in it (<<>> when it has none).
Rule(names, oneOf) == [names |-> names, oneOf |-> oneOf]

\* cloneRuleNames that does not descend into oneOf
cloneRuleNamesFlat(to, from) ==
  [i \in 1..Len(to) |->
     IF i <= Len(from) THEN Rule(from[i].names, to[i].oneOf) ELSE to[i]]

\* cloneRuleNames(to, from), lines 488-500: the rules of to after the call;
\* a missing list is <<>>, which the loop leaves as it is
RECURSIVE cloneRuleNames(_, _)
cloneRuleNames(to, from) ==
  [i \in 1..Len(to) |->
     IF i <= Len(from)
     THEN Rule(from[i].names, cloneRuleNames(to[i].oneOf, from[i].oneOf))
     ELSE to[i]]

\* the chain callbacks applied last first
chainAppliedReversed(fns) == [i \in 1..Len(fns) |-> fns[Len(fns) + 1 - i]]

\* resolveChainableWebpackConfig, lines 449-454: the callbacks applied to the
\* new Config, in the order forEach calls them
chainApplied(fns) == [i \in 1..Len(fns) |-> fns[i]]

\* What a raw contribution is: the callback of "peek" changes the config it
\* is given and returns nothing, the other plugins' callbacks return an
\* object, configureWebpack of the project is a function returning an object
\* or a literal object.
rawKind(fn, options) ==
  CASE fn = "peek" -> "returns nothing"
    [] fn = "projectOptions" ->
         IF options.config["configureWebpack"].t = "fn" THEN "returns object"
         ELSE "literal"
    [] OTHER -> "returns object"

\* lines 464-475, one contribution: a function is called and its truthy
\* result merged, a truthy literal is merged
rawStep(fn, options) ==
  [fn |-> fn,
   called |-> rawKind(fn, options) \in {"returns nothing", "returns object"},
   merged |-> rawKind(fn, options) \in {"returns object", "literal"}]

\* lines 464-475: the contributions in the order forEach takes them
rawApplied(fns, options) == [i \in 1..Len(fns) |-> rawStep(fns[i], options)]

\* line 480: config !== original, webpackMerge having returned a new object
configReplaced(raw) == \E i \in 1..Len(raw) : raw[i].merged

\* resolveWebpackConfig, lines 456-485, when the guard lets it pass: from are
\* the rules of chainableConfig.toConfig(), merged the rules webpackMerge
\* left in its last result
resolveWebpackConfig(from, merged) ==
  [n |-> 1,
   chain |-> chainApplied(webpackChainFns),
   raw |-> rawApplied(webpackRawConfigFns, projectOptions),
   replaced |-> configReplaced(rawApplied(webpackRawConfigFns, projectOptions)),
   from |-> from,
   merged |-> merged,
   rules |-> IF configReplaced(rawApplied(webpackRawConfigFns, projectOptions))
             THEN cloneRuleNames(merged, from)
             ELSE from]

\* the rules webpack-chain gives a rule set of one named rule, and the rules
\* webpackMerge makes of them, without names and with one more rule
TypicalRules ==
  [from |-> <<Rule("r", <<>>)>>,
   merged |-> <<Rule("undef", <<>>), Rule("undef", <<>>)>>]

\* resolveWebpackConfig through the facade; the plugin goes on when it returns
ApiResolveWebpackConfig ==
  /\ InApply("resolveWebpackConfig")
  /\ last' = IF resolveThrows(initialized)
             THEN Threw("api.resolveWebpackConfig", "guard")
             ELSE Ended("api.resolveWebpackConfig", FALSE)
  /\ resolved' = IF resolveThrows(initialized) THEN resolved
                 ELSE resolveWebpackConfig(TypicalRules.from, TypicalRules.merged)
  /\ pc' = ApiDone
  /\ UNCHANGED <<initialized, mode, plugins, projectOptions, initProjectOptions,
                 webpackChainFns, webpackRawConfigFns, registryVars, cli, env,
                 disk, runArgs, runLog, applied, dispatch, loaded, calls,
                 initState, added, ctor>>

\* resolveWebpackConfig() called by a client
ResolveWebpackConfigOf(rules) ==
  /\ ClientMayCall
  /\ calls' = calls + 1
  /\ last' = IF resolveThrows(initialized)
             THEN Threw("resolveWebpackConfig", "guard")
             ELSE Ended("resolveWebpackConfig", FALSE)
  /\ resolved' = IF resolveThrows(initialized) THEN resolved
                 ELSE resolveWebpackConfig(rules.from, rules.merged)
  /\ UNCHANGED <<initialized, mode, plugins, projectOptions, initProjectOptions,
                 webpackChainFns, webpackRawConfigFns, registryVars, cli, env,
                 disk, pc, runArgs, runLog, applied, dispatch, loaded, initState, added,
                 ctor>>

ResolveWebpackConfig == ResolveWebpackConfigOf(TypicalRules)

\* ------------------------------------------------------------------------
\* registerCommand and registerCommandFlag called by a client
\* ------------------------------------------------------------------------

\* service.registerCommand(command, {builder, handler})
RegisterCommandWith(command, builder) ==
  /\ ClientMayCall
  /\ calls' = calls + 1
  /\ registeredCommands' = registerCommand(registeredCommands, command, "client", builder)
  /\ last' = Ended("registerCommand", FALSE)
  /\ UNCHANGED <<initialized, mode, plugins, projectOptions, initProjectOptions,
                 webpackChainFns, webpackRawConfigFns, registeredCommandFlags,
                 registeredCommandHandlers, cli, env, disk, pc, runArgs, runLog,
                 applied, dispatch, loaded, initState, added, ctor, resolved>>

\* service.registerCommand(command, handler)
RegisterCommand(command) == RegisterCommandWith(command, NoFlags)

\* the handlers a map holds, over all commands
RECURSIVE handlerCount(_, _)
handlerCount(handlerMap, names) ==
  IF names = {} THEN 0
  ELSE LET n == CHOOSE x \in names : TRUE
       IN Len(handlerMap[n]) + handlerCount(handlerMap, names \ {n})

\* a handler of a client that returns ret; at numbers the handlers in the
\* order they are handed to registerCommandFlag, flag and value are the
\* schema {flag: value} of the same call
clientHandlerFor(handlerMap, flag, value, ret) ==
  [owner |-> "client", ret |-> ret,
   at |-> handlerCount(handlerMap, DOMAIN handlerMap) + 1,
   flag |-> flag, value |-> value]

clientHandler(handlerMap, ret) == clientHandlerFor(handlerMap, "f", "client", ret)

\* service.registerCommandFlag(cmdName, {flag: value}, handler), the handler
\* returning ret
RegisterCommandFlagFor(cmdName, flag, value, ret) ==
  /\ ClientMayCall
  /\ calls' = calls + 1
  /\ registeredCommandFlags' = registerFlag(registeredCommandFlags, cmdName, flag, value)
  /\ registeredCommandHandlers' =
       registerHandler(registeredCommandHandlers, cmdName,
                       clientHandlerFor(registeredCommandHandlers, flag, value, ret))
  /\ last' = Ended("registerCommandFlag", FALSE)
  /\ UNCHANGED <<initialized, mode, plugins, projectOptions, initProjectOptions,
                 webpackChainFns, webpackRawConfigFns, registeredCommands, cli,
                 env, disk, pc, runArgs, runLog, applied, dispatch, loaded,
                 initState, added, ctor, resolved>>

\* service.registerCommandFlag(cmdName, {f: ...}, handler)
RegisterCommandFlagOf(cmdName, ret) == RegisterCommandFlagFor(cmdName, "f", "client", ret)

RegisterCommandFlag(cmdName) == RegisterCommandFlagOf(cmdName, "undef")

\* ------------------------------------------------------------------------
\* loadEnv
\* ------------------------------------------------------------------------

\* the client calls loadEnv(mode) itself; mode "" stands for a falsy mode
LoadEnv(m) ==
  /\ ClientMayCall
  /\ calls' = calls + 1
  /\ env' = loadEnv(m, env, disk.envFiles).env
  /\ last' = IF loadEnv(m, env, disk.envFiles).threw
             THEN Threw("loadEnv", "env")
             ELSE Ended("loadEnv", FALSE)
  /\ UNCHANGED <<initialized, mode, plugins, projectOptions, initProjectOptions,
                 webpackChainFns, webpackRawConfigFns, registryVars, cli, disk,
                 pc, runArgs, runLog, applied, dispatch, loaded, initState,
                 added, ctor, resolved>>

\* ------------------------------------------------------------------------
\* loadProjectOptions and run
\* ------------------------------------------------------------------------

\* what loadProjectOptions(configFile) reads
loadInput(configFile) ==
  [configFile |-> configFile, explicitExport |-> disk.explicitExport,
   searchExport |-> disk.searchExport, initOptions |-> initProjectOptions,
   defaults |-> disk.defaults, postcss |-> disk.postcss,
   browserslist |-> disk.browserslist]

Loaded(in) ==
  [n |-> 1, in |-> in, threw |-> loadProjectOptions(in).threw,
   merged |-> loadProjectOptions(in).merged, export |-> loadProjectOptions(in).export,
   config |-> loadProjectOptions(in).config, log |-> loadProjectOptions(in).log]

\* the client calls loadProjectOptions(configFile) itself
LoadProjectOptions(configFile) ==
  /\ pc = Idle
  /\ loaded.n = 0
  /\ loaded' = Loaded(loadInput(configFile))
  /\ initProjectOptions' = loadProjectOptions(loadInput(configFile)).initOptions
  /\ last' = IF loaded'.threw THEN Threw("loadProjectOptions", "config")
             ELSE Ended("loadProjectOptions", FALSE)
  /\ UNCHANGED <<initialized, mode, plugins, projectOptions, webpackChainFns,
                 webpackRawConfigFns, registryVars, cli, env, disk, pc, runArgs,
                 runLog, applied, dispatch, calls, initState, added, ctor,
                 resolved>>

\* run, lines 418-424: up to and with loadEnv(mode)
RunStart(cmd, argv, raw) ==
  /\ ClientMayCall
  /\ calls' = calls + 1
  /\ runArgs' = [cmd |-> cmd, argv |-> argv, raw |-> Args(raw), mode |-> runMode(cmd, argv)]
  /\ env' = loadEnv(runMode(cmd, argv), env, disk.envFiles).env
  /\ IF loadEnv(runMode(cmd, argv), env, disk.envFiles).threw
     THEN /\ pc' = Idle
          /\ last' = Threw("run", "env")
          /\ runLog' = <<>>
     ELSE /\ pc' = [Idle EXCEPT !.run = "env"]
          /\ runLog' = <<Phase("env")>>
          /\ UNCHANGED last
  /\ UNCHANGED <<initialized, mode, plugins, projectOptions, initProjectOptions,
                 webpackChainFns, webpackRawConfigFns, registryVars, cli, disk,
                 applied, dispatch, loaded, initState, added, ctor, resolved>>

\* run, line 428: await this.loadProjectOptions(argv.configFile)
RunLoadOptions ==
  /\ pc.run = "env"
  /\ loaded' = Loaded(loadInput(runArgs.argv.configFile))
  /\ initProjectOptions' =
       loadProjectOptions(loadInput(runArgs.argv.configFile)).initOptions
  /\ IF loaded'.threw
     THEN /\ pc' = Idle
          /\ last' = Threw("run", "config")
          /\ UNCHANGED runLog
     ELSE /\ pc' = [pc EXCEPT !.run = "opts"]
          /\ runLog' = Append(runLog, Phase("opts"))
          /\ UNCHANGED last
  /\ UNCHANGED <<initialized, mode, plugins, projectOptions, webpackChainFns,
                 webpackRawConfigFns, registryVars, cli, env, disk, runArgs,
                 applied, dispatch, calls, initState, added, ctor, resolved>>

\* line 429: logger is argv._logger, and calling it throws when argv has none
loggerCallThrows(argv) == ~argv.logger

\* line 437: this.addPlugin('../plugins/progress')
progressName == [kind |-> "module", id |-> "progress"]

\* run, lines 429-439: log and assign the options, add the progress plugin,
\* enter init(mode)
RunInit ==
  /\ pc.run = "opts"
  /\ IF loggerCallThrows(runArgs.argv)
     THEN /\ pc' = Idle
          /\ last' = Threw("run", "logger")
          /\ UNCHANGED <<projectOptions, plugins, initialized, mode, runLog, initState>>
     ELSE /\ projectOptions' = [def |-> TRUE, config |-> loaded.config]
          /\ plugins' = IF runArgs.argv.noProgress THEN plugins
                        ELSE addPlugin(plugins, progressName, "undef")
          /\ runLog' = Append(runLog, [ph |-> "assign", n |-> Len(plugins'),
                                        starts |-> initStarts(initialized)])
          /\ IF initStarts(initialized)
             THEN /\ initialized' = TRUE
                  /\ mode' = runArgs.mode
                  /\ pc' = InitLoop("run", plugins')
                  /\ initState' = "running"
             ELSE /\ pc' = [pc EXCEPT !.run = "dispatch"]
                  /\ UNCHANGED <<initialized, mode, initState>>
          /\ UNCHANGED last
  /\ UNCHANGED <<initProjectOptions, webpackChainFns, webpackRawConfigFns,
                 registryVars, cli, env, disk, runArgs, applied, dispatch,
                 loaded, calls, added, ctor, resolved>>

\* run, lines 440-441: this.runCommand(cmd, rawArgv), return this
RunDispatch(invoke) ==
  /\ pc.run = "dispatch"
  /\ RunCommandEffect(runArgs.cmd, runArgs.raw, invoke)
  /\ last' = [runCommandResult(runArgs.cmd, runArgs.raw) EXCEPT !.op = "run"]
  /\ runLog' = Append(runLog, Phase("dispatch"))
  /\ pc' = Idle
  /\ UNCHANGED <<initialized, mode, plugins, projectOptions, initProjectOptions,
                 webpackChainFns, webpackRawConfigFns, registeredCommands,
                 registeredCommandHandlers, env, disk, runArgs, applied, loaded,
                 calls, initState, added, ctor, resolved>>

\* ------------------------------------------------------------------------
\* Specifications
\* ------------------------------------------------------------------------

RawArgsIn == {Args(r) : r \in RawArgs} \cup {NoArgs}

Next ==
  \/ \E c \in AddCalls : AddPlugin(c.name, c.options)
  \/ \E m \in Modes : InitCall(m)
  \/ ApplyBegin
  \/ ApiRegisterCommand
  \/ ApiRegisterCommandFlag
  \/ ApiAddPlugin
  \/ ApiResolveWebpackConfig
  \/ ApiChainWebpack
  \/ ApiConfigWebpack
  \/ ApplyReturn
  \/ ApplyThrow
  \/ InitEnd
  \/ \E cmd \in Names, raw \in RawArgsIn, invoke \in BOOLEAN : RunCommand(cmd, raw, invoke)
  \/ ResolveWebpackConfig
  \/ \E cmd \in Names, argv \in Argvs : RunStart(cmd, argv, <<>>)
  \/ RunLoadOptions
  \/ RunInit
  \/ \E invoke \in BOOLEAN : RunDispatch(invoke)

Spec == Init /\ [][Next]_vars

\* ------------------------------------------------------------------------
\* loadProjectOptions on its own: the three layers of a configuration
\* ------------------------------------------------------------------------

Layers == {"e", "f", "d"}

HttpUrl(c) == <<"h", "t", "t", "p", ":", "/", "/", c>>

\* The defined values property k takes in the layer c: "e" the explicit
\* options given to the constructor, "f" the configuration file, "d" the
\* built-in defaults.  Every value names its layer.
LayerValues(k, c) ==
  CASE k = "css" ->
         {Obj([NoSub EXCEPT !["extract"] = SubStr(<<c>>)]),
          Obj([NoSub EXCEPT !["postcss"] = SubStr(<<c>>)])}
         \cup (IF c = "f"
               THEN {Obj([NoSub EXCEPT !["postcss"] = SubStr(<<>>)])}
               ELSE {})
    [] k = "browserslist" ->
         {List(<<c>>)} \cup (IF c = "d" THEN {} ELSE {Str(<<>>)})
    [] k = "publicPath" ->
         {Str(<<c>>)}
         \cup (IF c = "f"
               THEN {Str(<<".", "/", c>>), Str(<<"/", c, "/">>), Str(HttpUrl(c)),
                     Str(<<>>), List(<<c>>), Str(<<".">>),
                     Str(<<".", ".", "/", c>>)}
               ELSE {})
    [] k = "outputDir" ->
         {Str(<<c>>)} \cup (IF c = "f" THEN {Str(<<c, "/">>)} ELSE {})
    [] k \in {"chainWebpack", "configureWebpack"} -> {Fn(<<c>>)}
    [] OTHER -> {Str(<<c>>)}

\* the configurations of layer c that set properties of V only; base gives
\* the other properties
LayerConfigs(V, c, base) ==
  {[k \in Keys |-> IF k \in V THEN g[k] ELSE base[k]] :
     g \in {h \in [V -> UNION {LayerValues(k, c) : k \in V} \cup {Undef}] :
              \A k \in V : h[k] \in LayerValues(k, c) \cup {Undef}}}

\* what a file may export, given the properties cfg of an object export
Exports(cfg) ==
  {NoExport, FalsyExport, NonObjExport, ObjExport(cfg, TRUE), ObjExport(cfg, FALSE)}

\* a file the search finds while an explicit file is loaded
OtherFile == ObjExport(ConfigOf([assetsDir |-> Str(<<"x">>)]), TRUE)

\* the disks of SpecConfig: the file under test is the explicit one or the
\* one at the conventional place
ConfigDisks(f, d) ==
  {[explicitExport |-> x.e, searchExport |-> x.s, defaults |-> d,
    postcss |-> a.p, browserslist |-> a.b, envFiles |-> NoEnvFiles] :
      x \in {[e |-> ex, s |-> OtherFile] : ex \in Exports(f) \ {NoExport}}
            \cup {[e |-> OtherFile, s |-> ex] : ex \in Exports(f)},
      a \in {[p |-> SubUndef, b |-> Undef],
             [p |-> SubStr(<<"x">>), b |-> List(<<"x">>)]}}

ConfigFiles == {"undef", "missing", "exists"}

InitConfig ==
  \E V \in {W \in SUBSET Keys : Cardinality(W) <= MaxVaried} :
    \E e \in LayerConfigs(V, "e", EmptyConfig), f \in LayerConfigs(V, "f", EmptyConfig),
       d \in LayerConfigs(V, "d", TypicalDefaults) :
      \E dk \in ConfigDisks(f, d) : Constructed(<<>>, FALSE, e, dk)

NextConfig == \E configFile \in ConfigFiles : LoadProjectOptions(configFile)

SpecConfig == InitConfig /\ [][NextConfig]_vars

\* ------------------------------------------------------------------------
\* The constructor on its own: lists of plugin references
\* ------------------------------------------------------------------------

\* plugin references: a module name, [module, options] with options and with
\* a falsy second element, [object, options], and one _resolvePlugin rejects
PluginRefs ==
  {[kind |-> "module", id |-> "cmd", pair |-> FALSE, options |-> "undef"],
   [kind |-> "module", id |-> "more", pair |-> TRUE, options |-> "o1"],
   [kind |-> "module", id |-> "pass", pair |-> TRUE, options |-> "null"],
   [kind |-> "object", id |-> "stop", pair |-> TRUE, options |-> "o1"],
   [kind |-> "bad", id |-> "none", pair |-> FALSE, options |-> "undef"]}

RefLists == UNION {[1..n -> PluginRefs] : n \in 0..MaxRefs}

InitPlugins ==
  \E refs \in RefLists, useBuiltInPlugin \in BOOLEAN, d \in ServiceDisks :
    /\ ~resolvePlugins(refs, useBuiltInPlugin).threw
    /\ d.searchExport.t = "none"
    /\ Constructed(refs, useBuiltInPlugin, EmptyConfig, d)

NextPlugins == \E c \in AddCalls : AddPlugin(c.name, c.options)

SpecPlugins == InitPlugins /\ [][NextPlugins]_vars

\* ------------------------------------------------------------------------
\* loadEnv on its own: the process environment and the two files
\* ------------------------------------------------------------------------

EnvModes == {"", "production", "test"}

\* the environments a process starts with; "old" is a value set before
ProcessEnvs == [EnvVars -> {"absent", "old"}]

\* the mode's environment files as loadEnv finds them: none, an unreadable
\* one, or a base file with or without a .local file next to it
EnvFiles ==
  {NoEnvFiles, [NoEnvFiles EXCEPT !.found = TRUE, !.readable = FALSE]}
  \cup {[found |-> TRUE, readable |-> TRUE, base |-> b, local |-> l] :
          b \in [EnvVars -> {"absent", "base"}],
          l \in [EnvVars -> {"absent", "local"}]}

EnvDisks ==
  {[explicitExport |-> NoExport, searchExport |-> NoExport,
    defaults |-> TypicalDefaults, postcss |-> SubUndef, browserslist |-> Undef,
    envFiles |-> f] : f \in EnvFiles}

InitEnv ==
  \E e \in ProcessEnvs, d \in EnvDisks :
    ConstructedIn(<<>>, FALSE, EmptyConfig, d, e)

NextEnv == \E m \in EnvModes : LoadEnv(m)

SpecEnv == InitEnv /\ [][NextEnv]_vars

\* ------------------------------------------------------------------------
\* The registries on their own: command strings
\* ------------------------------------------------------------------------

\* the name token of the command strings
NameToken == <<"b">>

\* argument groups, two of them with a space inside
Groups ==
  {<<"<", "e", ">">>, <<"[", "o", "]">>, <<"<", "e", " ", "f", ">">>,
   <<"[", "o", " ", "p", "]">>}

\* whitespace between the name and a group and between groups
Gaps == {<<" ">>, <<" ", " ">>, <<"\t">>}

\* the tails of n groups, each after a gap
RECURSIVE GroupTails(_)
GroupTails(n) ==
  IF n = 0 THEN {<<>>}
  ELSE {w \o g \o r : w \in Gaps, g \in Groups, r \in GroupTails(n - 1)}

\* whitespace before the name token
Leads == {<<>>, <<" ">>, <<" ", " ">>}

\* the name token followed by up to MaxGroups groups, after a lead
CommandStrings ==
  {l \o NameToken \o r :
     l \in Leads, r \in UNION {GroupTails(n) : n \in 0..MaxGroups}}

\* the keys the Maps are followed for
CommandKeys == {getCommandName(c) : c \in CommandStrings} \cup Names

InitNames ==
  \E d \in ServiceDisks :
    /\ d.searchExport.t = "none"
    /\ ConstructedWith(<<>>, FALSE, EmptyConfig, d, NoEnv, CommandKeys)

NextNames ==
  \E c \in CommandStrings : RegisterCommand(c) \/ RegisterCommandFlag(c)

SpecNames == InitNames /\ [][NextNames]_vars

\* ------------------------------------------------------------------------
\* resolveWebpackConfig on its own: the rules of the resolved configuration
\* ------------------------------------------------------------------------

ModuleRef(id) == [kind |-> "module", id |-> id, pair |-> FALSE, options |-> "undef"]

\* the plugins of the constructor: "merge" and "peek" in both orders
ResolveRefs ==
  {<<>>, <<ModuleRef("merge")>>, <<ModuleRef("peek")>>,
   <<ModuleRef("merge"), ModuleRef("peek")>>,
   <<ModuleRef("peek"), ModuleRef("merge")>>}

\* run is given a logger and asks for no progress plugin
RulesArgv == Argv("undef", "undef", TRUE, TRUE)

\* the lists of at most max of the rules of R
RuleLists(R, max) == UNION {[1..n -> R] : n \in 0..max}

\* the rules webpack-chain makes: a rule set and the rules of its oneOf have
\* names
ChainRules ==
  {Rule("r", oneOf) : oneOf \in RuleLists({Rule("n", <<>>)}, MaxNested)}

\* the rules webpackMerge leaves: the names are gone
MergedRules ==
  {Rule("undef", oneOf) : oneOf \in RuleLists({Rule("undef", <<>>)}, MaxNested)}

\* webpackMerge concatenates arrays: the merged list has a rule wherever the
\* list it was merged from has one
RECURSIVE Covers(_, _)
Covers(merged, from) ==
  /\ Len(merged) >= Len(from)
  /\ \A i \in 1..Len(from) : Covers(merged[i].oneOf, from[i].oneOf)

RulePairs ==
  {r \in [from : RuleLists(ChainRules, MaxRules),
             merged : RuleLists(MergedRules, MaxRules)] :
     Covers(r.merged, r.from)}

InitRules ==
  \E refs \in {r \in ResolveRefs : r # <<>>}, d \in ServiceDisks :
    /\ d.searchExport.t = "none"
    /\ Constructed(refs, FALSE, EmptyConfig, d)

NextRules ==
  \/ RunStart(<<"x">>, RulesArgv, <<>>)
  \/ RunLoadOptions
  \/ RunInit
  \/ ApplyBegin
  \/ ApiResolveWebpackConfig
  \/ ApiChainWebpack
  \/ ApiConfigWebpack
  \/ ApplyReturn
  \/ InitEnd
  \/ RunDispatch(TRUE)
  \/ \E r \in RulePairs : ResolveWebpackConfigOf(r)

SpecRules == InitRules /\ [][NextRules]_vars

\* ------------------------------------------------------------------------
\* The callback lists: plugins and the project configuration contribute,
\* resolveWebpackConfig applies
\* ------------------------------------------------------------------------

\* project files: chainWebpack is a function or not set, configureWebpack a
\* function, a literal object or not set
ResolveFiles ==
  {ConfigOf([chainWebpack |-> c, configureWebpack |-> r]) :
     c \in {Fn(<<"f">>), Undef}, r \in {Fn(<<"f">>), Obj(NoSub), Undef}}

ResolveDisks ==
  {[d EXCEPT !.searchExport = ObjExport(f, TRUE)] :
     d \in {s \in ServiceDisks : s.searchExport.t = "none"}, f \in ResolveFiles}

InitResolve ==
  \E refs \in ResolveRefs, useBuiltInPlugin \in BOOLEAN, d \in ResolveDisks :
    Constructed(refs, useBuiltInPlugin, EmptyConfig, d)

NextResolve ==
  \/ \E m \in Modes : InitCall(m)
  \/ RunStart(<<"x">>, RulesArgv, <<>>)
  \/ RunLoadOptions
  \/ RunInit
  \/ ApplyBegin
  \/ ApiResolveWebpackConfig
  \/ ApiChainWebpack
  \/ ApiConfigWebpack
  \/ ApplyReturn
  \/ InitEnd
  \/ RunDispatch(TRUE)
  \/ ResolveWebpackConfig

SpecResolve == InitResolve /\ [][NextResolve]_vars

\* ------------------------------------------------------------------------
\* runCommand on its own: the dispatch of a command with flag-handlers
\* ------------------------------------------------------------------------

\* what a flag-handler returns
Rets == {"false", "undef"}

\* the calls of registerCommandFlag before the dispatch, in their order
Registrations ==
  UNION {[1..n -> [command : Commands \cup {<<"x">>}, ret : Rets]] :
           n \in 0..MaxHandlers}

\* the flag map and the handler map after the first k calls of regs
RECURSIVE flagsAfter(_, _)
flagsAfter(regs, k) ==
  IF k = 0 THEN [n \in Names |-> [has |-> FALSE, flags |-> NoFlags]]
  ELSE registerFlag(flagsAfter(regs, k - 1), regs[k].command, "f", "client")

RECURSIVE handlersAfter(_, _)
handlersAfter(regs, k) ==
  IF k = 0 THEN [n \in Names |-> <<>>]
  ELSE registerHandler(handlersAfter(regs, k - 1), regs[k].command,
                       clientHandler(handlersAfter(regs, k - 1), regs[k].ret))

\* the commands "b" and "x" are registered
DispatchCommands ==
  registerCommand(registerCommand([n \in Names |-> NoCommand], <<"b">>,
                                  "client", NoFlags),
                  <<"x">>, "client", NoFlags)

InitDispatch ==
  \E regs \in Registrations, d \in ServiceDisks :
    /\ d.searchExport.t = "none"
    /\ Registered(<<>>, FALSE, EmptyConfig, d, NoEnv, DispatchCommands,
                  flagsAfter(regs, Len(regs)), handlersAfter(regs, Len(regs)))

NextDispatch ==
  \/ \E ret \in Rets : RegisterCommandFlagOf(<<"b">>, ret)
  \/ \E cmd \in Names, invoke \in BOOLEAN : RunCommand(cmd, Args(<<>>), invoke)

SpecDispatch == InitDispatch /\ [][NextDispatch]_vars

\* ------------------------------------------------------------------------
\* The flag schema of a command: registerCommandFlag, registerCommand and
\* runCommand
\* ------------------------------------------------------------------------

\* what a contributed schema says of its flag
FlagValues == {"u", "v"}

\* the builders of a command: none, or one that describes a flag
Builders == {NoFlags} \cup {[NoFlags EXCEPT ![k] = "command"] : k \in FlagKeys}

\* the calls of registerCommandFlag for the command "b", in their order
FlagRegistrations ==
  UNION {[1..n -> [flag : FlagKeys, value : FlagValues]] : n \in 0..MaxFlags}

RECURSIVE schemasAfter(_, _)
schemasAfter(regs, k) ==
  IF k = 0 THEN [n \in Names |-> [has |-> FALSE, flags |-> NoFlags]]
  ELSE registerFlag(schemasAfter(regs, k - 1), <<"b">>, regs[k].flag, regs[k].value)

RECURSIVE contributorsAfter(_, _)
contributorsAfter(regs, k) ==
  IF k = 0 THEN [n \in Names |-> <<>>]
  ELSE registerHandler(contributorsAfter(regs, k - 1), <<"b">>,
                       clientHandlerFor(contributorsAfter(regs, k - 1),
                                        regs[k].flag, regs[k].value, "undef"))

\* the command "b" registered with the builder b, or no command yet
CommandsWith(isRegistered, b) ==
  IF isRegistered
  THEN registerCommand([n \in Names |-> NoCommand], <<"b">>, "client", b)
  ELSE [n \in Names |-> NoCommand]

InitFlags ==
  \E regs \in FlagRegistrations, isRegistered \in BOOLEAN, b \in Builders,
     d \in ServiceDisks :
    /\ d.searchExport.t = "none"
    /\ Registered(<<>>, FALSE, EmptyConfig, d, NoEnv, CommandsWith(isRegistered, b),
                  schemasAfter(regs, Len(regs)), contributorsAfter(regs, Len(regs)))

NextFlags ==
  \/ \E b \in Builders : RegisterCommandWith(<<"b">>, b)
  \/ \E k \in FlagKeys, v \in FlagValues : RegisterCommandFlagFor(<<"b">>, k, v, "undef")
  \/ \E cmd \in Names, invoke \in BOOLEAN : RunCommand(cmd, Args(<<>>), invoke)

SpecFlags == InitFlags /\ [][NextFlags]_vars

\* ------------------------------------------------------------------------
\* Properties
\* ------------------------------------------------------------------------

\* C1: in an invocation of the composite handler runCommand builds, the
\* command's own handler is not called when a flag-handler registered for the
\* command returns false, and is called exactly once when none does (also
\* when none is registered).
C1_FlagHandlerShortCircuit ==
  dispatch.n = 1 =>
    IF \E i \in 1..Len(dispatch.handlers) : dispatch.handlers[i].ret = "false"
    THEN dispatch.primary = <<>>
    ELSE dispatch.primary = <<registeredCommands[dispatch.cmd].handler>>

C1_Witness ==
  /\ dispatch.n = 1
  /\ \E i \in 1..Len(dispatch.handlers) : dispatch.handlers[i].ret = "false"
  /\ dispatch.primary = <<>>

\* a dispatch whose flag-handlers all return something other than false
C1_WitnessAllPass ==
  /\ dispatch.n = 1
  /\ dispatch.handlers # <<>>
  /\ Len(dispatch.primary) = 1

AnyInitCall == \E m \in Modes : InitCall(m)

\* C2: once a first init has returned, a further init call applies no
\* plugin, leaves mode, plugins, the callback lists and the three registries
\* unchanged, and returns.
C2_InitIdempotent ==
  [][(initState = "returned" /\ AnyInitCall) =>
       /\ UNCHANGED <<mode, plugins, webpackChainFns, webpackRawConfigFns,
                      registeredCommands, registeredCommandFlags,
                      registeredCommandHandlers, applied, initialized>>
       /\ pc' = Idle
       /\ last'.op = "init" /\ ~last'.threw]_vars

C2_Witness ==
  /\ initState = "returned"
  /\ last.op = "init" /\ last.noop
  /\ mode # "test"
  /\ applied # <<>>

\* C3 as stated: resolveWebpackConfig throws in every state in which the
\* first init has not returned (never called, applying plugins, aborted).
C3_ThrowsUntilInitReturned ==
  [][(ResolveWebpackConfig \/ ApiResolveWebpackConfig) =>
       (initState # "returned" => last'.threw)]_vars

\* C3 amended: resolveWebpackConfig throws exactly when init was never
\* called; once init has been entered (it is applying plugins, it aborted or
\* it returned) the guard lets the call through.
C3_ThrowsBeforeInit ==
  [][(ResolveWebpackConfig \/ ApiResolveWebpackConfig) =>
       (last'.threw <=> initState = "none")]_vars

C3_Witness ==
  /\ last.op = "resolveWebpackConfig" /\ last.threw
  /\ initState = "none"

\* a call from inside apply, and a call after an aborted init, that return
C3_WitnessInside ==
  /\ last.op = "api.resolveWebpackConfig" /\ ~last.threw /\ initState = "running"

C3_WitnessAborted ==
  /\ last.op = "resolveWebpackConfig" /\ ~last.threw /\ initState = "aborted"

AnyRunCommand ==
  \/ \E cmd \in Names, raw \in RawArgsIn, invoke \in BOOLEAN : RunCommand(cmd, raw, invoke)
  \/ \E invoke \in BOOLEAN : RunDispatch(invoke)

\* C6: runCommand for a name no command is registered under logs an error
\* and returns without throwing; it registers nothing on the parser, does not
\* parse, invokes no handler and leaves rawArgs as it was.
C6_UnknownCommand ==
  [][(AnyRunCommand /\ ~registeredCommands[last'.cmd].set) =>
       /\ last'.logged /\ ~last'.threw
       /\ cli' = cli
       /\ dispatch' = dispatch
       /\ last'.rawOut = last'.rawIn
       /\ UNCHANGED registryVars]_vars

C6_Witness ==
  /\ last.op = "runCommand" /\ last.logged /\ ~last.threw
  /\ ~registeredCommands[last.cmd].set
  /\ last.rawIn.def /\ last.rawIn.a # <<>>
  /\ \E n \in Names : registeredCommands[n].set

AnyAddPlugin ==
  \/ \E c \in AddCalls : AddPlugin(c.name, c.options) /\ ~last'.threw
  \/ ApiAddPlugin

\* C10 as stated: no two descriptors of the plugin list have the same id.
C10_UniqueIds ==
  \A i, j \in 1..Len(plugins) : plugins[i].id = plugins[j].id => i = j

\* C10 amended: every addPlugin call that returns lengthens the plugin list
\* by one entry placed at the end and leaves the earlier entries in place;
\* ids are not checked, so the list may hold an id more than once.
C10_AppendOnly ==
  [][AnyAddPlugin =>
       /\ Len(plugins') = Len(plugins) + 1
       /\ SubSeq(plugins', 1, Len(plugins)) = plugins]_vars

C10_Witness ==
  /\ last.op = "addPlugin" /\ ~last.threw
  /\ Len(plugins) >= 2
  /\ \E i, j \in 1..Len(plugins) : i # j /\ plugins[i].id = plugins[j].id

IsPrefix(s, u) == Len(s) <= Len(u) /\ SubSeq(u, 1, Len(s)) = s

\* the phases of a run that reaches its end: a is the entry of the
\* assignment (a.n plugins are in the list as init is entered), applies says
\* whether the plugins are applied
RunPhases(a, applies) ==
  <<Phase("env"), Phase("opts"), a>>
  \o (IF applies
      THEN [i \in 1..a.n |-> [Phase("apply") EXCEPT !.n = i]] \o <<Phase("inited")>>
      ELSE <<>>)
  \o <<Phase("dispatch")>>

RunReturned == pc.run = "idle" /\ last.op = "run" /\ ~last.threw

\* The phases of the latest run are, as far as the run got, the phases of a
\* full run in their order; no apply made by run sees projectOptions
\* unassigned; a run that returned went through all of them and ended with
\* its only dispatch.  every says whether each run applies the plugins, or
\* only a run whose init call is the first.
RunInOrder(every) ==
  /\ IF Len(runLog) < 3
     THEN IsPrefix(runLog, <<Phase("env"), Phase("opts")>>)
     ELSE IsPrefix(runLog, RunPhases(runLog[3], every \/ runLog[3].starts))
  /\ \A i \in 1..Len(applied) : applied[i].by = "run" => applied[i].projectOptions
  /\ RunReturned =>
       /\ Len(runLog) >= 3
       /\ runLog = RunPhases(runLog[3], every \/ runLog[3].starts)
       /\ runLog[3].starts =>
            \A k \in 1..runLog[3].n :
              \E i \in 1..Len(applied) :
                /\ applied[i].by = "run"
                /\ applied[i].idx = k
                /\ applied[i].id = plugins[k].id

\* C4 as stated: in every run the phases happen in the order environment
\* loading, option resolution, assignment of projectOptions, application of
\* every plugin, return of init, dispatch; none is skipped or repeated.
C4_EveryRunAppliesPlugins == RunInOrder(TRUE)

\* C4 amended: the phases of a run happen in the order environment loading,
\* option resolution, assignment of projectOptions, application of the
\* plugins, return of init, dispatch, none of them twice and none passed
\* over, where the plugins are applied (each plugin the list holds when init
\* is entered, in list order) only when this run's init call is the first on
\* the service: on a service that init was called on before, run goes from
\* the assignment straight to the dispatch.  No apply made by run sees
\* projectOptions unassigned, and runCommand is the last and only dispatch.
C4_RunPhasesInOrder == RunInOrder(FALSE)

C4_Witness ==
  /\ RunReturned
  /\ runLog[3].starts /\ runLog[3].n >= 2
  /\ runLog[Len(runLog)].ph = "dispatch"
  /\ dispatch.n = 1

\* a run on a service that init was called on before: no plugin is applied
C4_WitnessInitialized ==
  /\ RunReturned
  /\ ~runLog[3].starts /\ runLog[3].n >= 1
  /\ runLog[Len(runLog)].ph = "dispatch"

\* C5: on a project without configuration file, run('build', {}), whose
\* argv carries no logger, ends by returning, having reached the dispatch.
C5_BareRunReturns ==
  (/\ pc.run = "idle" /\ last.op = "run"
   /\ runArgs.cmd = <<"b">>
   /\ ~runArgs.argv.logger
   /\ runArgs.argv.configFile = "undef"
   /\ disk.searchExport.t = "none")
  => (~last.threw /\ runLog # <<>> /\ runLog[Len(runLog)].ph = "dispatch")

\* the three layers of the latest loadProjectOptions call and its result
Explicit == loaded.in.initOptions

File == loaded.export.cfg

Defaults == loaded.in.defaults

Resolved == loaded.config

\* a file was found, passed the checks and was merged
FileMerged == loaded.n = 1 /\ ~loaded.threw /\ loaded.export.t = "obj"

\* The leaves of a configuration: a property with a value that is no object
\* (leaf "."), or a property of the object a property holds.
Leaves == {"."} \cup SubKeys

Has(config, k, leaf) ==
  IF leaf = "." THEN config[k].t \notin {"undef", "obj"}
  ELSE config[k].t = "obj" /\ config[k].o[leaf].t # "undef"

\* what lines 324-360 make of the value v of property k
Normalized(k, v) ==
  normalizeConfig([EmptyConfig EXCEPT ![k] = v], loaded.in.postcss,
                  loaded.in.browserslist)[k]

\* the resolved configuration has the leaf from the layer
Taken(layer, k, leaf) ==
  IF leaf = "." THEN Resolved[k] = Normalized(k, layer[k])
  ELSE Resolved[k].t = "obj" /\ Resolved[k].o[leaf] = layer[k].o[leaf]

NoFileExists ==
  loaded.n = 1 /\ loaded.in.configFile # "exists" /\ loaded.in.searchExport.t = "none"

C8_WitnessMissing ==
  /\ NoFileExists /\ loaded.in.configFile = "missing"
  /\ ~loaded.threw
  /\ \E k \in Keys : Has(Explicit, k, ".")

\* C9: a file whose export is a truthy non-object, or an object the schema
\* rejects, makes loadProjectOptions throw, and is not merged.
C9_InvalidFileIsFatal ==
  (/\ loaded.n = 1
   /\ \/ loaded.export.t = "nonobj"
      \/ loaded.export.t = "obj" /\ ~loaded.export.valid)
  => (loaded.threw /\ ~loaded.merged)

\* C11: every apply call made for a plugin whose reference came with options
\* (a [module, options] pair, an [object, options] pair, addPlugin(ref,
\* options)) gets exactly those options as its third argument.
C11_OptionsReachApply ==
  \A i \in 1..Len(applied) :
    OptionsTruthy(applied[i].given) => applied[i].options = applied[i].given

\* the ids C12 expects of the list the constructor got from resolvePlugins
ExpectedIds ==
  (IF ctor.useBuiltInPlugin
   THEN <<"base", "css", "app", "optimization", "babel">>
   ELSE <<>>)
  \o [i \in 1..Len(ctor.plugins) |-> ctor.plugins[i].id]

\* C12: the list resolvePlugins returned to the constructor holds the
\* built-in plugins in the order base, css, app, optimization, babel when
\* they are enabled and none of them otherwise, followed by one entry per
\* reference in the order of the references; later addPlugin calls leave
\* this part of the list in place.
C12_BuiltInsThenReferences ==
  /\ Len(plugins) >= Len(ExpectedIds)
  /\ [i \in 1..Len(ExpectedIds) |-> plugins[i].id] = ExpectedIds
  /\ calls = 0 => Len(plugins) = Len(ExpectedIds)

C12_Witness ==
  /\ calls = 0
  /\ ctor.useBuiltInPlugin
  /\ Len(ctor.plugins) >= 2
  /\ ctor.plugins[1].id # ctor.plugins[2].id
  /\ Len(plugins) = 5 + Len(ctor.plugins)
  /\ plugins[6].id = ctor.plugins[1].id

\* C13: once init has returned, runCommand and resolveWebpackConfig (with
\* the resolveChainableWebpackConfig call it makes) leave registeredCommands,
\* registeredCommandFlags with the schema stored per command, and
\* registeredCommandHandlers as they were before the call.
C13_RegistriesOnlyRead ==
  [][(initState = "returned"
      /\ (AnyRunCommand \/ ResolveWebpackConfig \/ ApiResolveWebpackConfig))
     => UNCHANGED registryVars]_vars

\* C14: a loadEnv call that finds the mode's file changes no variable the
\* process environment already holds; and, when it returns, each variable
\* that was absent and that the files define has the value of the .local
\* file if that file defines it, and of the base file otherwise.
C14_LoadEnvFillsAbsent ==
  [][(NextEnv /\ disk.envFiles.found) =>
       \A k \in EnvVars :
         /\ env[k] # "absent" => env'[k] = env[k]
         /\ (~last'.threw /\ env[k] = "absent") =>
              /\ disk.envFiles.local[k] # "absent" => env'[k] = disk.envFiles.local[k]
              /\ (disk.envFiles.local[k] = "absent" /\ disk.envFiles.base[k] # "absent")
                   => env'[k] = disk.envFiles.base[k]]_vars

C14_Witness ==
  /\ last.op = "loadEnv" /\ ~last.threw /\ calls = 1
  /\ disk.envFiles.found
  /\ \E k \in EnvVars :
       env[k] = "old" /\ disk.envFiles.base[k] = "base" /\ disk.envFiles.local[k] = "local"
  /\ \E k \in EnvVars :
       env[k] = "local" /\ disk.envFiles.base[k] = "base"
  /\ \E k \in EnvVars :
       env[k] = "base" /\ disk.envFiles.local[k] = "absent"

\* C20: a loadEnv call with a non-empty mode that finds the mode's file and
\* returns leaves NODE_ENV (and BABEL_ENV), when it was unset before the call
\* and no file defines it, set to "production" for the mode "production" and
\* to "development" for every other mode.
C20_ModeDefaultsNodeEnv ==
  [][\A m \in EnvModes \ {""} :
       (LoadEnv(m) /\ disk.envFiles.found /\ ~last'.threw) =>
         \A k \in {"NODE_ENV", "BABEL_ENV"} :
           (/\ env[k] = "absent"
            /\ disk.envFiles.base[k] = "absent"
            /\ disk.envFiles.local[k] = "absent")
           => env'[k] = (IF m = "production" THEN "production" ELSE "development")]_vars

\* C15: whatever command strings (a name token, then groups in [] or <>,
\* with repeated or leading whitespace and spaces inside groups) were
\* registered with registerCommand and registerCommandFlag, the only key the
\* registries hold is the name token.
C15_KeyIsNameToken ==
  \A n \in DOMAIN registeredCommands :
    (\/ registeredCommands[n].set
     \/ registeredCommandFlags[n].has
     \/ registeredCommandHandlers[n] # <<>>)
    => n = NameToken

\* the configuration of the latest loadProjectOptions call as the merges
\* leave it, before lines 324-360 normalize it
Merged == mergeExport(loaded.export, defaultsDeep(Explicit, Defaults)).config

EndsWithSlash(s) == s # <<>> /\ s[Len(s)] = "/"

\* C16 as stated: a publicPath that is a string comes back ending with a
\* slash, and beginning with a slash unless it is an http(s) URL; any other
\* value comes back unchanged.
C16_SlashesAtBothEnds ==
  (loaded.n = 1 /\ ~loaded.threw) =>
    IF Merged["publicPath"].t = "str"
    THEN /\ Resolved["publicPath"].t = "str"
         /\ EndsWithSlash(Resolved["publicPath"].s)
         /\ Resolved["publicPath"].s[1] = "/" \/ IsHttpUrl(Resolved["publicPath"].s)
    ELSE Resolved["publicPath"] = Merged["publicPath"]

\* C16 amended: a non-empty string publicPath that does not begin with "."
\* comes back ending with a slash, and beginning with a slash unless it is
\* an http(s) URL; one that begins with "." stays relative: it gets the
\* trailing slash, no leading slash, and loses a leading "./"; the empty
\* string stays empty; any other value comes back unchanged.
C16_SlashesUnlessRelative ==
  (loaded.n = 1 /\ ~loaded.threw) =>
    LET s == Merged["publicPath"].s
        out == Resolved["publicPath"]
        closed == IF EndsWithSlash(s) THEN s ELSE s \o <<"/">>
    IN IF Merged["publicPath"].t # "str" THEN out = Merged["publicPath"]
       ELSE /\ out.t = "str"
            /\ IF s = <<>> THEN out.s = <<>>
               ELSE IF s[1] = "."
               THEN out.s = IF Len(closed) >= 2 /\ closed[2] = "/"
                            THEN SubSeq(closed, 3, Len(closed))
                            ELSE closed
               ELSE /\ EndsWithSlash(out.s)
                    /\ out.s[1] = "/" \/ IsHttpUrl(out.s)

C16_Witness ==
  /\ FileMerged
  /\ File["publicPath"] = Str(<<"f">>)
  /\ Resolved["publicPath"] = Str(<<"/", "f", "/">>)

\* a relative publicPath
C16_WitnessRelative ==
  /\ FileMerged
  /\ File["publicPath"] = Str(<<".", "/", "f">>)
  /\ Resolved["publicPath"] = Str(<<"f", "/">>)

\* the names of the rules of from are on the rules of to at the same index,
\* and so in each oneOf
RECURSIVE NamesRestored(_, _)
NamesRestored(to, from) ==
  \A i \in 1..Len(from) :
    /\ i <= Len(to)
    /\ to[i].names = from[i].names
    /\ NamesRestored(to[i].oneOf, from[i].oneOf)

\* C17: when the raw contributions replaced the configuration object in
\* resolveWebpackConfig, the rule at every index of the resolved
\* configuration carries the __ruleNames of the rule the configuration had
\* at that index before the merges, and so do the rules of each oneOf.
C17_RuleNamesRestored ==
  (resolved.n = 1 /\ resolved.replaced) =>
    NamesRestored(resolved.rules, resolved.from)

\* a merged configuration with a named rule set whose oneOf has a rule, and
\* a rule more than before the merge
C17_Witness ==
  /\ resolved.n = 1
  /\ resolved.replaced
  /\ Len(resolved.from) >= 1
  /\ resolved.from[1].names = "r"
  /\ Len(resolved.from[1].oneOf) >= 1
  /\ Len(resolved.rules) > Len(resolved.from)
  /\ ~NamesRestored(resolved.merged, resolved.from)

\* C18: in one dispatch of a command the flag-handlers that run are handlers
\* registered for it, run in the order they were registered and each at
\* most once; none runs after one that returned false; and the command's
\* own handler, when it runs, is the last call of the dispatch, after the
\* flag-handlers that ran.
C18_FlagHandlersInOrder ==
  dispatch.n = 1 =>
    /\ \A i \in 1..Len(dispatch.ran) :
         /\ \E k \in 1..Len(registeredCommandHandlers[dispatch.cmd]) :
              registeredCommandHandlers[dispatch.cmd][k] = dispatch.ran[i]
         /\ \A j \in 1..Len(dispatch.ran) :
              i < j => /\ dispatch.ran[i].at < dispatch.ran[j].at
                       /\ dispatch.ran[i].ret # "false"
    /\ Len(dispatch.order) = Len(dispatch.ran) + Len(dispatch.primary)
    /\ \A i \in 1..Len(dispatch.order) :
         dispatch.order[i] = "primary" <=> i > Len(dispatch.ran)

\* a dispatch of a command with three flag-handlers, the second of which
\* returns false, and one with two flag-handlers followed by the command's
\* own handler
C18_Witness ==
  /\ dispatch.n = 1
  /\ Len(dispatch.handlers) = 3
  /\ Len(dispatch.ran) = 2
  /\ dispatch.ran[2].ret = "false"
  /\ dispatch.primary = <<>>

C18_WitnessPrimaryLast ==
  /\ dispatch.n = 1
  /\ Len(dispatch.ran) = 2
  /\ dispatch.order = <<"flag", "flag", "primary">>

\* where the plugin id was applied
AppliedAt(id) == CHOOSE k \in 1..Len(applied) : applied[k].id = id

\* the callbacks of fns are in the order their plugins were applied, and the
\* callback of the project configuration is behind all of them
InsertedInOrder(fns) ==
  \A i \in 1..Len(fns) :
    /\ fns[i] = "projectOptions" => i = Len(fns)
    /\ fns[i] # "projectOptions" =>
         /\ \E k \in 1..Len(applied) : applied[k].id = fns[i]
         /\ \A j \in 1..Len(fns) :
              (i < j /\ fns[j] # "projectOptions") =>
                AppliedAt(fns[i]) <= AppliedAt(fns[j])

\* a call of resolveWebpackConfig that returns
Resolves ==
  (ResolveWebpackConfig \/ ApiResolveWebpackConfig) /\ ~resolveThrows(initialized)

\* C19: the chain callbacks and the raw contributions are in their lists in
\* the order the plugins were applied, with the callback of the project
\* configuration last, where init puts it once the plugins are applied;
\* a call of resolveWebpackConfig applies the chain callbacks of the list
\* to its own new builder, each once and in the order of the list, and takes
\* the raw contributions each once in the order of their list, merging what
\* a function returns and a literal object, and leaving the config object
\* in place when nothing is merged.
C19_InsertionOrderIsExecutionOrder ==
  /\ [](/\ InsertedInOrder(webpackChainFns)
        /\ InsertedInOrder(webpackRawConfigFns)
        /\ initState = "returned" =>
             /\ Truthy(projectOptions.config["chainWebpack"]) =>
                  (webpackChainFns # <<>>
                   /\ webpackChainFns[Len(webpackChainFns)] = "projectOptions")
             /\ Truthy(projectOptions.config["configureWebpack"]) =>
                  (webpackRawConfigFns # <<>>
                   /\ webpackRawConfigFns[Len(webpackRawConfigFns)] = "projectOptions"))
  /\ [][Resolves =>
         /\ resolved'.chain = webpackChainFns
         /\ Len(resolved'.raw) = Len(webpackRawConfigFns)
         /\ \A i \in 1..Len(webpackRawConfigFns) :
              /\ resolved'.raw[i].fn = webpackRawConfigFns[i]
              /\ resolved'.raw[i].merged =
                   (rawKind(webpackRawConfigFns[i], projectOptions) # "returns nothing")
         /\ resolved'.replaced = (\E i \in 1..Len(resolved'.raw) : resolved'.raw[i].merged)
     ]_vars

\* a resolved configuration that the chain callbacks of two plugins and of
\* the project were applied to, and three raw contributions: one returning
\* nothing, one returning an object, and the literal object of the project
C19_Witness ==
  /\ resolved.n = 1
  /\ Len(resolved.chain) >= 3
  /\ resolved.chain[Len(resolved.chain)] = "projectOptions"
  /\ Len(resolved.raw) = 3
  /\ resolved.raw[1].fn = "peek" /\ ~resolved.raw[1].merged
  /\ resolved.raw[2].fn = "merge" /\ resolved.raw[2].merged
  /\ resolved.raw[3].fn = "projectOptions" /\ ~resolved.raw[3].called

\* C21: when init returns normally, every descriptor of the plugin list has
\* had its apply called exactly once, the descriptors added while init was
\* running included.
C21_EveryDescriptorApplied ==
  [][(InitEnd /\ initState' = "returned") =>
       \A k \in 1..Len(plugins') :
         Cardinality({i \in 1..Len(applied') : applied'[i].idx = k}) = 1]_vars

\* line 379: the schema runCommand(cmd) hands to the parser, called now
SchemaHanded(cmd) ==
  assignFlags(registeredCommandFlags[cmd].flags, registeredCommands[cmd].builder)

\* the calls of registerCommandFlag for cmd that contributed the flag k
Contributed(cmd, k) ==
  {i \in 1..Len(registeredCommandHandlers[cmd]) :
     registeredCommandHandlers[cmd][i].flag = k}

\* the union of the contributed schemas and the builder of the command: the
\* builder's word on a flag, else the latest contribution's
SchemaUnion(cmd) ==
  [k \in FlagKeys |->
     IF registeredCommands[cmd].builder[k] # "none"
     THEN registeredCommands[cmd].builder[k]
     ELSE IF Contributed(cmd, k) = {} THEN "none"
          ELSE registeredCommandHandlers[cmd][
                 CHOOSE i \in Contributed(cmd, k) :
                   \A j \in Contributed(cmd, k) : j <= i].value]

\* C22: the flag schema runCommand hands to the parser for a registered
\* command is the union of the schemas contributed by registerCommandFlag
\* and the command's own builder, the latest contribution winning among the
\* contributions and the builder winning over them, in whatever order the
\* calls were made.
C22_SchemaIsUnion ==
  \A cmd \in Names : registeredCommands[cmd].set => SchemaHanded(cmd) = SchemaUnion(cmd)

====
